---- MODULE Spec2Model ----
(***************************************************************************)
(* ECDSA file signer (src/ecdsa.cpp) over the Galois field class           *)
(* (src/GaloisField.hpp).                                                  *)
(*                                                                         *)
(* The arithmetic is the code's, operation by operation.  The curve is the *)
(* code's curve y^2 = x^3 + 7 taken at a width TLC can enumerate: Bits = 8 *)
(* instead of 256, with a field prime P = 163 and a group order N = 139    *)
(* that keep the relations of the secp256k1 constants the code relies on:  *)
(*   - P and N are prime, N < P, and 2^(Bits-1) < N < P < 2^Bits;          *)
(*   - P % 4 = 3 (the square root is a power (P+1)/4) and P % 3 = 1;       *)
(*   - 7 is neither a square nor a cube mod P, so no curve point has       *)
(*     x = 0 and none has x^3 = 7;                                         *)
(*   - the curve has exactly N - 1 affine points (cofactor 1);             *)
(*   - there are curve points with x >= N, and one with x = N.             *)
(***************************************************************************)
EXTENDS Integers, Sequences, FiniteSets, TLC

(***************************************************************************)
(* Curve constants (class Curve) and widths                                *)
(***************************************************************************)
secp256k1_N == 139
secp256k1_P == 163
Gx == 2
Gy == 34
Bits == 8

(***************************************************************************)
(* Bounds of the model                                                     *)
(***************************************************************************)
MaxPrime == 12
MaxDigest == 1
MaxPriv == 2
MaxGiven == 2
MaxFill == 1
MaxTries == 3
EntropyCounts == {0, 31, 32, 4096}

(***************************************************************************)
(* class GF                                                                *)
(***************************************************************************)
\* GF::abort throws std::exception: no field element is produced
Abort == [num |-> -1, prime |-> -1]

IsAbort(e) == e.prime = -1

\* GF(n, p): num = n mod p (mpz_mod, never negative), prime = p
GF(n, p) == [num |-> n % p, prime |-> p]

\* an operand that is itself a thrown exception, or a different field
Mismatch(a, b) == IsAbort(a) \/ IsAbort(b) \/ a.prime # b.prime

GFeq(a, b) == a.num = b.num /\ a.prime = b.prime

GFeqInt(a, n) == GFeq(GF(a.num, a.prime), GF(n, a.prime))

GFadd(a, b) == IF Mismatch(a, b) THEN Abort ELSE GF(a.num + b.num, a.prime)

GFaddInt(a, n) == IF IsAbort(a) THEN Abort ELSE GFadd(GF(a.num, a.prime), GF(n, a.prime))

GFsub(a, b) == IF Mismatch(a, b) THEN Abort ELSE GF(a.num - b.num, a.prime)

GFsubInt(a, n) == IF IsAbort(a) THEN Abort ELSE GFsub(GF(a.num, a.prime), GF(n, a.prime))

GFneg(a) == IF IsAbort(a) THEN Abort ELSE GF(0 - a.num, a.prime)

GFmul(a, b) == IF Mismatch(a, b) THEN Abort ELSE GF(a.num * b.num, a.prime)

GFmulInt(a, n) == IF IsAbort(a) THEN Abort ELSE GFmul(GF(a.num, a.prime), GF(n, a.prime))

\* mpz_powm: b^e mod m by square and multiply, e >= 0
RECURSIVE PowMod(_, _, _)
PowMod(b, e, m) ==
    IF e = 0 THEN 1 % m
    ELSE LET h == PowMod(b, e \div 2, m)
             s == (h * h) % m
         IN  IF e % 2 = 1 THEN (s * b) % m ELSE s

\* GF::pow: the exponent is first reduced modulo prime - 1
GFpow(a, exp) ==
    IF IsAbort(a) THEN Abort
    ELSE LET p1 == a.prime - 1
             e  == exp % p1
         IN  GF(PowMod(a.num, e, a.prime), a.prime)

\* a plausible slip: the inverse exponent taken as prime - 1
GFdiv_m(a, b) ==
    IF Mismatch(a, b) THEN Abort
    ELSE GFmul(GF(a.num, a.prime), GFpow(b, a.prime - 1))

\* GF::operator/ : a * other.pow(prime - 2); only the moduli are checked
GFdiv(a, b) ==
    IF Mismatch(a, b) THEN Abort
    ELSE GFmul(GF(a.num, a.prime), GFpow(b, a.prime - 2))

\* GF::operator%(int): num mod n, kept in the same field
GFmodInt(a, n) == IF IsAbort(a) THEN Abort ELSE GF(a.num % GF(n, a.prime).num, a.prime)

(***************************************************************************)
(* struct point, add, priv2pub                                             *)
(***************************************************************************)
Point(x, y) == [x |-> x, y |-> y]

\* secp256k1.G
secp256k1_G == Point(GF(Gx, secp256k1_P), GF(Gy, secp256k1_P))

\* the pair (0,0) priv2pub starts its accumulator from and returns for scalar 0
ZeroPoint == Point(GF(0, secp256k1_P), GF(0, secp256k1_P))

\* add(p, q): the tangent slope when both coordinates agree, the chord slope
\* otherwise; no operand is special-cased
add(p, q) ==
    LET lambda == IF GFeq(p.x, q.x) /\ GFeq(p.y, q.y)
                  THEN GFdiv(GFmulInt(GFpow(p.x, 2), 3), GFmulInt(p.y, 2))
                  ELSE GFdiv(GFsub(q.y, p.y), GFsub(q.x, p.x))
        rx == GFsub(GFsub(GFpow(lambda, 2), p.x), q.x)
        ry == GFsub(GFmul(lambda, GFsub(p.x, rx)), p.y)
    IN  Point(rx, ry)

\* 2^i, the mask `bit` of priv2pub after i shifts
RECURSIVE Pow2(_)
Pow2(i) == IF i = 0 THEN 1 ELSE 2 * Pow2(i - 1)

\* mpz_and(cmp, bit, sk.getNum()) != 0
BitSet(n, i) == (n \div Pow2(i)) % 2 = 1

\* a point no value was produced for: an exception left add
Thrown(p) == IsAbort(p.x) \/ IsAbort(p.y)

\* the loop of priv2pub from iteration i on: G is the running double of the
\* base point, pub the accumulator; an exception thrown by add ends the loop
RECURSIVE priv2pubLoop(_, _, _, _)
priv2pubLoop(i, sk, G, pub) ==
    IF i >= Bits THEN pub
    ELSE LET pub1 == IF BitSet(sk.num, i)
                     THEN IF GFeqInt(pub.x, 0) /\ GFeqInt(pub.y, 0)
                          THEN Point(G.x, G.y)
                          ELSE add(pub, G)
                     ELSE pub
             G1   == add(G, G)
         IN  IF Thrown(pub1) \/ Thrown(G1) THEN Point(Abort, Abort)
             ELSE priv2pubLoop(i + 1, sk, G1, pub1)

\* priv2pub(sk, Q): sk * Q by double-and-add over Bits bits
priv2pub(sk, Q) == priv2pubLoop(0, sk, Point(Q.x, Q.y), ZeroPoint)

\* priv2pub(sk): Q == NULL, the base point is the generator
priv2pubG(sk) == priv2pub(sk, secp256k1_G)

\* the affine points of y^2 = x^3 + 7 over the field prime
OnCurve(p) ==
    /\ p.x.prime = secp256k1_P
    /\ p.y.prime = secp256k1_P
    /\ (p.y.num * p.y.num) % secp256k1_P
         = (p.x.num * p.x.num * p.x.num + 7) % secp256k1_P

(***************************************************************************)
(* Text: hex strings are sequences of digit values 0..15                   *)
(***************************************************************************)
HexWidth == 64
BufSize == 143

\* the number of hex digits of n > 0
RECURSIVE HexLen(_)
HexLen(n) == IF n < 16 THEN 1 ELSE 1 + HexLen(n \div 16)

RECURSIVE Pow16(_)
Pow16(i) == IF i = 0 THEN 1 ELSE 16 * Pow16(i - 1)

\* printf("%x", n): the digits of n, most significant first, no padding
ToHex(n) == [i \in 1..HexLen(n) |-> (n \div Pow16(HexLen(n) - i)) % 16]

\* gmp_sprintf("%Z064x", n): at least HexWidth digits, zero-filled on the left
ToHex64(n) ==
    LET d == ToHex(n)
    IN  IF Len(d) >= HexWidth THEN d
        ELSE [i \in 1..(HexWidth - Len(d)) |-> 0] \o d

\* sprintf("%02hhx", c) for a byte c
HexByte(c) == <<(c % 256) \div 16, c % 16>>

\* mpz_class(str, 16): the value of a hex string
RECURSIVE FromHex(_)
FromHex(str) ==
    IF Len(str) = 0 THEN 0
    ELSE 16 * FromHex(SubSeq(str, 1, Len(str) - 1)) + str[Len(str)]

\* std::string::substr(pos, n), pos counted from 0, cut at the end of the string
Substr(str, pos, n) ==
    SubSeq(str, pos + 1, IF pos + n > Len(str) THEN Len(str) ELSE pos + n)

\* hex2int: the first two characters of h read by sscanf("%x")
hex2int(h) == FromHex(Substr(h, 0, 2))

\* a "00" in front when the first digit is above '7'
PadSign(str) == IF str[1] > 7 THEN <<0, 0>> \o str ELSE str

\* sprintf(buf, "02%x%s02%x%s", |strR|/2, strR, |strS|/2, strS)
ConcatRS(strR, strS) ==
    <<0, 2>> \o ToHex(Len(strR) \div 2) \o strR \o <<0, 2>> \o ToHex(Len(strS) \div 2) \o strS

\* sprintf(buf, "30%x%s", |strRS|/2, strRS)
ConcludeDER(strRS) == <<3, 0>> \o ToHex(Len(strRS) \div 2) \o strRS

\* the bytes sprintf stores for a text: its characters and the terminating NUL
Stored(text) == Len(text) + 1

\* lines 426-454 on the two 64-digit renderings: the strings and what each
\* sprintf stores into buf[143]
DerFormat(hexR, hexS) ==
    LET strR  == PadSign(hexR)
        strS  == PadSign(hexS)
        strRS == ConcatRS(strR, strS)
        der   == ConcludeDER(strRS)
    IN  [strR |-> strR, strS |-> strS, strRS |-> strRS, der |-> der,
         storedRS |-> Stored(strRS), storedDER |-> Stored(der)]

\* what `der = buf` can hold after the last sprintf.  A text that fits is
\* read back as written.  A text that does not fit was stored past the end of
\* buf: the run is either ended there (a checked sprintf, a smashed stack), or
\* goes on with the text intact, or with the part that fitted.
DerAfterSprintf(f) ==
    IF f.storedRS <= BufSize /\ f.storedDER <= BufSize
    THEN {[ended |-> FALSE, der |-> f.der]}
    ELSE {[ended |-> TRUE,  der |-> <<>>],
          [ended |-> FALSE, der |-> f.der],
          [ended |-> FALSE, der |-> SubSeq(f.der, 1, BufSize - 1)]}

\* lines 457-460: the bytes of a hex text, two digits a byte
HexToBytes(der) ==
    [i \in 1..(Len(der) \div 2) |-> FromHex(Substr(der, 2 * (i - 1), 2))]

\* lines 474-479: the hex text of a byte string
BytesToHex(bin) ==
    [i \in 1..(2 * Len(bin)) |-> HexByte(bin[(i + 1) \div 2])[2 - (i % 2)]]

\* base64_encode: three bytes to four sextets, 64 standing for the '=' padding
base64_encode(bytes) ==
    LET n == Len(bytes)
        B(i) == IF i <= n THEN bytes[i] ELSE 0
        Sextet(g, j) ==
            LET b1 == B(3 * g + 1)
                b2 == B(3 * g + 2)
                b3 == B(3 * g + 3)
            IN  CASE j = 1 -> b1 \div 4
                  [] j = 2 -> (b1 % 4) * 16 + b2 \div 16
                  [] j = 3 -> IF 3 * g + 2 > n THEN 64 ELSE (b2 % 16) * 4 + b3 \div 64
                  [] j = 4 -> IF 3 * g + 3 > n THEN 64 ELSE b3 % 64
    IN  [i \in 1..(4 * ((n + 2) \div 3)) |-> Sextet((i - 1) \div 4, ((i - 1) % 4) + 1)]

\* base64_decode: four sextets to three bytes, the padding dropped
base64_decode(txt) ==
    LET pad == Cardinality({i \in 1..Len(txt) : txt[i] = 64})
        n   == 3 * (Len(txt) \div 4) - pad
        C(i) == IF txt[i] = 64 THEN 0 ELSE txt[i]
        Byte(g, j) ==
            LET c1 == C(4 * g + 1)
                c2 == C(4 * g + 2)
                c3 == C(4 * g + 3)
                c4 == C(4 * g + 4)
            IN  CASE j = 1 -> c1 * 4 + c2 \div 16
                  [] j = 2 -> (c2 % 16) * 16 + c3 \div 4
                  [] j = 3 -> (c3 % 4) * 64 + c4
    IN  [i \in 1..n |-> Byte((i - 1) \div 3, ((i - 1) % 3) + 1)]

\* computeSHA256 / computeRIPEMD160 through getHash: a digest is taken as the
\* term naming its function and its input (no two inputs collide)
getHash(str, function) == [hash |-> function, of |-> str]

\* binary2Addr: Base58Check of version 00 and ripemd160(sha256(str))
binary2Addr(str) == [version |-> <<0, 0>>, payload |-> getHash(getHash(str, 1), 2)]

\* gmp_sprintf(pubBuf, "04%Z064x%Z064x", Q.x, Q.y)
PubHex(Q) == <<0, 4>> \o ToHex64(Q.x.num) \o ToHex64(Q.y.num)

\* splitXY(key, pk): 02 or 03 by the parity of y, then the 64 digits of x
splitXY(key, pk) ==
    IF pk.y.num % 2 = 0 THEN <<0, 2>> \o Substr(key, 2, 64)
    ELSE <<0, 3>> \o Substr(key, 2, 64)

(***************************************************************************)
(* Pieces of main                                                          *)
(***************************************************************************)
\* genPriv: the keys its loop lets through, key <= 0 and key >= N resampled
GenPrivKeys == {key \in 0..(Pow2(Bits) - 1) : ~(key <= 0 \/ key >= secp256k1_N)}

\* lines 411-414: S = (message + privKey * R) / sk over the group order
SignS(message, privKey, R, sk) ==
    GFdiv(GFadd(message, GFmul(GF(privKey.num, secp256k1_N), GF(R.num, secp256k1_N))),
          GF(sk.num, secp256k1_N))

\* lines 418-419: the point the self-check compares with R
SelfCheckPoint(message, R, S, pubKey) ==
    add(priv2pubG(GFdiv(message, S)),
        priv2pub(GFdiv(GF(R.num, secp256k1_N), S), pubKey))

\* lines 484-489: R and S cut out of the DER text; substr throws when it
\* starts past the end, mpz_class when it is given no digit
ParseSig(der) ==
    LET lenR == hex2int(Substr(der, 6, 2))
        strR == Substr(der, 8, lenR * 2)
        lenS == hex2int(Substr(der, 8 + lenR * 2 + 2, 2))
        strS == Substr(der, 8 + lenR * 2 + 4, lenS * 2)
    IN  IF Len(der) < 8 \/ 8 + lenR * 2 + 4 > Len(der) \/ Len(strR) = 0 \/ Len(strS) = 0
        THEN [thrown |-> TRUE, R |-> Abort, S |-> Abort]
        ELSE [thrown |-> FALSE,
              R |-> GF(FromHex(strR), secp256k1_P),
              S |-> GF(FromHex(strS), secp256k1_P)]

\* lines 498-505: the candidate point of recovery id i
CandidatePoint(i, R) ==
    LET x     == GFadd(R, GFmulInt(GF(secp256k1_N, secp256k1_P), i \div 2))
        alpha == GFaddInt(GFpow(x, 3), 7)
        beta  == GFpow(alpha, (secp256k1_P + 1) \div 4)
        y     == IF GFeqInt(GFmodInt(GFsubInt(beta, i), 2), 0) THEN beta ELSE GFneg(beta)
    IN  Point(x, y)

\* a plausible slip: the digest term added instead of subtracted
RecoverQ_m(i, R, S, message) ==
    LET r    == CandidatePoint(i, R)
        temp == add(priv2pub(S, r), priv2pubG(message))
    IN  priv2pub(GFpow(GF(R.num, secp256k1_N), -1), temp)

\* lines 507-511: Q = R^-1 * (S * r - message * G)
RecoverQ(i, R, S, message) ==
    LET r    == CandidatePoint(i, R)
        temp == add(priv2pub(S, r), priv2pubG(GFneg(message)))
    IN  priv2pub(GFpow(GF(R.num, secp256k1_N), -1), temp)

\* lines 514-517: the two addresses of a recovered point
AddrUncompressed(Q) == binary2Addr(PubHex(Q))

AddrCompressed(Q) == binary2Addr(splitXY(PubHex(Q), Q))

(***************************************************************************)
(* State                                                                   *)
(***************************************************************************)
VARIABLES
    fpc, fa, fb, fq, fr,       \* field arithmetic: a / b, then (a / b) * b
    cpc, cP, csk, cres,        \* curve arithmetic: add and priv2pub on drawn operands
    rpc,                       \* readDevRandom: where it is
    rnd,                       \*   the descriptor of this iteration
    openFds,                   \*   the descriptors the process holds open
    entropy, success, hex, ri, \*   its locals
    tries,                     \*   iterations of its loop so far
    pc,                        \* main: where it is
    origin,                    \*   "sign": a sign run, then a verify run on its output;
                               \*   "given": a verify run on a given signature;
                               \*   "der": the DER encoding alone
    message, privKey, pubKey,  \*   the digest and the key pair
    sk, R, S, verify,          \*   the sign loop
    hexR, hexS,                \*   gmp_sprintf of R and of S
    storedRS, storedDER,       \*   bytes the two sprintf stored into buf[143]
    sigB64,                    \*   the signature printed
    argPubKey, argSig,         \*   argv[3] and argv[4] of a verify run
    vR, vS, vi, found, Q       \*   the recovery loop

fieldVars == <<fpc, fa, fb, fq, fr>>
curveVars == <<cpc, cP, csk, cres>>
randVars  == <<rpc, rnd, openFds, entropy, success, hex, ri, tries>>
signVars  == <<message, privKey, pubKey, sk, R, S, verify>>
derVars   == <<hexR, hexS, storedRS, storedDER, sigB64>>
verVars   == <<argPubKey, argSig, vR, vS, vi, found, Q>>
mainVars  == <<pc, origin, signVars, derVars, verVars>>
vars == <<fieldVars, curveVars, randVars, mainVars>>

\* a component that is not part of the run under study
FieldOff == fpc = "off" /\ fa = Abort /\ fb = Abort /\ fq = Abort /\ fr = Abort

CurveOff == cpc = "off" /\ cP = ZeroPoint /\ csk = 0 /\ cres = ZeroPoint

RandOff ==
    /\ rpc = "off" /\ rnd = -1 /\ openFds = {} /\ entropy = 0
    /\ success = FALSE /\ hex = <<>> /\ ri = 0 /\ tries = 0

SignUnset ==
    /\ message = GF(0, secp256k1_N) /\ privKey = GF(0, secp256k1_P)
    /\ pubKey = ZeroPoint /\ sk = GF(0, secp256k1_P)
    /\ R = GF(0, secp256k1_P) /\ S = GF(0, secp256k1_N) /\ verify = FALSE

DerUnset == hexR = <<>> /\ hexS = <<>> /\ storedRS = 0 /\ storedDER = 0 /\ sigB64 = <<>>

VerUnset ==
    /\ argPubKey = binary2Addr(<<>>) /\ argSig = <<>>
    /\ vR = GF(0, secp256k1_P) /\ vS = GF(0, secp256k1_P)
    /\ vi = 0 /\ found = FALSE /\ Q = ZeroPoint

MainOff == pc = "off" /\ origin = "off" /\ SignUnset /\ DerUnset /\ VerUnset

(***************************************************************************)
(* Field arithmetic on drawn operands                                      *)
(***************************************************************************)
IsPrime(n) == n > 1 /\ \A k \in 2..(n - 1) : n % k # 0

Primes == {n \in 2..MaxPrime : IsPrime(n)}

FieldElements == {GF(n, p) : <<n, p>> \in {np \in (0..MaxPrime) \X Primes : np[1] < np[2]}}

InitField ==
    /\ fpc = "start"
    /\ fa \in FieldElements
    /\ fb \in FieldElements
    /\ fq = Abort
    /\ fr = Abort
    /\ CurveOff /\ RandOff /\ MainOff

\* q = a / b
FieldDivide ==
    /\ fpc = "start"
    /\ fq' = GFdiv(fa, fb)
    /\ fpc' = IF IsAbort(fq') THEN "aborted" ELSE "divided"
    /\ UNCHANGED <<fa, fb, fr>>
    /\ UNCHANGED <<curveVars, randVars, mainVars>>

\* r = q * b
FieldMultiply ==
    /\ fpc = "divided"
    /\ fr' = GFmul(fq, fb)
    /\ fpc' = "multiplied"
    /\ UNCHANGED <<fa, fb, fq>>
    /\ UNCHANGED <<curveVars, randVars, mainVars>>

NextField == FieldDivide \/ FieldMultiply

SpecField == InitField /\ [][NextField]_vars

(***************************************************************************)
(* Claims on the field                                                     *)
(***************************************************************************)
\* C6: a division by the zero element of the same field raises the fatal
\* error; it never returns a field element.
C6_DivisionByZeroAborts ==
    (fpc # "start" /\ fa.prime = fb.prime /\ fb.num = 0) => fpc = "aborted"

\* C7: for a prime modulus and b # 0, (a / b) * b = a.
C7_DivisionInvertsMultiplication ==
    (fpc = "multiplied" /\ fb.num # 0) => GFeq(fr, fa)

C7_Witness ==
    /\ fpc = "multiplied"
    /\ fb.num > 1
    /\ fa.num > 1
    /\ fq.num # fa.num
    /\ GFeq(fr, fa)

(***************************************************************************)
(* Curve arithmetic on drawn operands                                      *)
(***************************************************************************)
CurvePoints ==
    {Point(GF(x, secp256k1_P), GF(y, secp256k1_P)) :
        <<x, y>> \in {xy \in (0..(secp256k1_P - 1)) \X (0..(secp256k1_P - 1)) :
                        (xy[2] * xy[2]) % secp256k1_P
                          = (xy[1] * xy[1] * xy[1] + 7) % secp256k1_P}}

\* the scalars a GF over the field prime can carry into priv2pub
Scalars == 0..(secp256k1_P - 1)

InitCurve ==
    /\ cpc = "start"
    /\ cP \in CurvePoints
    /\ csk \in Scalars
    /\ cres = ZeroPoint
    /\ FieldOff /\ RandOff /\ MainOff

\* add(P, Infinity), Infinity as priv2pub returns it for the scalar 0
CurveAddInfinity ==
    /\ cpc = "start"
    /\ cres' = add(cP, priv2pubG(GF(0, secp256k1_P)))
    /\ cpc' = "added"
    /\ UNCHANGED <<cP, csk>>
    /\ UNCHANGED <<fieldVars, randVars, mainVars>>

\* priv2pub(sk) on the generator
CurveScalarMul ==
    /\ cpc = "start"
    /\ cres' = priv2pubG(GF(csk, secp256k1_P))
    /\ cpc' = "multiplied"
    /\ UNCHANGED <<cP, csk>>
    /\ UNCHANGED <<fieldVars, randVars, mainVars>>

NextCurve == CurveAddInfinity \/ CurveScalarMul

SpecCurve == InitCurve /\ [][NextCurve]_vars

(***************************************************************************)
(* Claims on the curve                                                     *)
(***************************************************************************)
\* C4: priv2pub with the scalar N on the generator returns the identity,
\* the pair (0,0).
C4_OrderTimesGeneratorIsIdentity ==
    (cpc = "multiplied" /\ csk = secp256k1_N) => cres = ZeroPoint

\* C5: adding the identity (0,0) to a curve point returns that point.
C5_AddIdentityIsNeutral ==
    (cpc = "added" /\ OnCurve(cP)) => cres = cP

(***************************************************************************)
(* readDevRandom(n), the branch built outside __APPLE__ (lines 80-102)     *)
(***************************************************************************)
\* genPriv asks for the bytes of one scalar (32 of them for 256 bits)
RandBytes == Bits \div 8

\* open returns the lowest descriptor not in use, above the three standard ones
LowestFree(fds) == CHOOSE d \in 3..(3 + Cardinality(fds)) :
                       d \notin fds /\ \A e \in 3..(d - 1) : e \in fds

InitRand ==
    /\ rpc = "open"
    /\ rnd = -1
    /\ openFds = {}
    /\ entropy = 0
    /\ success = FALSE
    /\ hex = <<>>
    /\ ri = 0
    /\ tries = 0
    /\ FieldOff /\ CurveOff /\ MainOff

\* int rnd = open("/dev/random", O_RDONLY): a new descriptor, or -1
RandOpen ==
    /\ rpc = "open"
    /\ \E ok \in BOOLEAN :
          /\ rnd' = IF ok THEN LowestFree(openFds) ELSE -1
          /\ openFds' = IF ok THEN openFds \cup {LowestFree(openFds)} ELSE openFds
    /\ rpc' = "test"
    /\ UNCHANGED <<entropy, success, hex, ri, tries>>
    /\ UNCHANGED <<fieldVars, curveVars, mainVars>>

\* if (rnd >= 0 && !ioctl(rnd, RNDGETENTCNT, &entropy) && entropy >= 32):
\* ioctl is only called on an open descriptor and only a successful ioctl
\* writes entropy; the else branch prints the message and closes nothing
RandTest ==
    /\ rpc = "test"
    /\ \E ioctlOk \in BOOLEAN, count \in EntropyCounts :
          /\ entropy' = IF rnd >= 0 /\ ioctlOk THEN count ELSE entropy
          /\ rpc' = IF rnd >= 0 /\ ioctlOk /\ entropy' >= 32 THEN "read" ELSE "while"
    /\ ri' = 0
    /\ UNCHANGED <<rnd, openFds, success, hex, tries>>
    /\ UNCHANGED <<fieldVars, curveVars, mainVars>>

\* read(rnd, &c, 1); sprintf(buf, "%02hhx", c); hex += buf
RandRead ==
    /\ rpc = "read"
    /\ ri < RandBytes
    /\ \E c \in 0..255 : hex' = hex \o HexByte(c)
    /\ ri' = ri + 1
    /\ UNCHANGED <<rpc, rnd, openFds, entropy, success, tries>>
    /\ UNCHANGED <<fieldVars, curveVars, mainVars>>

\* close(rnd); success = true
RandClose ==
    /\ rpc = "read"
    /\ ri >= RandBytes
    /\ openFds' = openFds \ {rnd}
    /\ success' = TRUE
    /\ rpc' = "while"
    /\ UNCHANGED <<rnd, entropy, hex, ri, tries>>
    /\ UNCHANGED <<fieldVars, curveVars, mainVars>>

\* } while (success == false): the next iteration declares a new rnd
RandAgain ==
    /\ rpc = "while"
    /\ success = FALSE
    /\ tries < MaxTries
    /\ tries' = tries + 1
    /\ rnd' = -1
    /\ rpc' = "open"
    /\ UNCHANGED <<openFds, entropy, success, hex, ri>>
    /\ UNCHANGED <<fieldVars, curveVars, mainVars>>

\* return hex
RandReturn ==
    /\ rpc = "while"
    /\ success = TRUE
    /\ rpc' = "done"
    /\ UNCHANGED <<rnd, openFds, entropy, success, hex, ri, tries>>
    /\ UNCHANGED <<fieldVars, curveVars, mainVars>>

NextRand == RandOpen \/ RandTest \/ RandRead \/ RandClose \/ RandAgain \/ RandReturn

SpecRand == InitRand /\ [][NextRand]_vars

(***************************************************************************)
(* Claim on the entropy source                                             *)
(***************************************************************************)
\* C8: every descriptor readDevRandom opens is closed before the next
\* iteration and before the return: never two open at once, none open when
\* an iteration starts or the function has returned.
C8_EntropySourceScoped ==
    /\ Cardinality(openFds) <= 1
    /\ rpc \in {"open", "done"} => openFds = {}

(***************************************************************************)
(* main: a sign run, a verify run                                          *)
(***************************************************************************)
\* the digest as main builds it: GF(z, N)
Digests == {GF(z, secp256k1_N) : z \in 0..MaxDigest}

\* the private key as main builds it: GF(d, P)
PrivKeys == {GF(d, secp256k1_P) : d \in 1..MaxPriv}

\* signatures handed to a verify run: well-formed DER of any two integers
GivenSigs ==
    {base64_encode(HexToBytes(DerFormat(ToHex64(r), ToHex64(s)).der)) :
        <<r, s>> \in (0..MaxGiven) \X (0..MaxGiven)}

\* identities handed to a verify run: both addresses of the public points of
\* the keys above and of the pair (0,0)
GivenPoints == {priv2pubG(d) : d \in PrivKeys} \cup {ZeroPoint}

GivenIdentities ==
    {AddrUncompressed(p) : p \in GivenPoints} \cup {AddrCompressed(p) : p \in GivenPoints}

\* sign <file> <WIF>: lines 385-396 done
InitSign ==
    /\ pc = "sign"
    /\ origin = "sign"
    /\ message \in Digests
    /\ privKey \in PrivKeys
    /\ pubKey = priv2pubG(privKey)
    /\ sk = GF(0, secp256k1_P)
    /\ R = GF(0, secp256k1_P)
    /\ S = GF(0, secp256k1_N)
    /\ verify = FALSE
    /\ DerUnset /\ VerUnset

\* verify <file> <pubKey> <signature>: lines 385-387 and 468-469 done
InitVerify ==
    /\ pc = "verify"
    /\ origin = "given"
    /\ message \in Digests
    /\ privKey = GF(0, secp256k1_P)
    /\ pubKey = ZeroPoint
    /\ sk = GF(0, secp256k1_P)
    /\ R = GF(0, secp256k1_P)
    /\ S = GF(0, secp256k1_N)
    /\ verify = FALSE
    /\ DerUnset
    /\ argPubKey \in GivenIdentities
    /\ argSig \in GivenSigs
    /\ vR = GF(0, secp256k1_P)
    /\ vS = GF(0, secp256k1_P)
    /\ vi = 0
    /\ found = FALSE
    /\ Q = ZeroPoint

Init ==
    /\ InitSign \/ InitVerify
    /\ FieldOff /\ CurveOff /\ RandOff

\* lines 405-415: one pass of the inner loop
SignAttempt ==
    /\ pc = "sign"
    /\ \E key \in GenPrivKeys :
          LET sk1 == GF(key, secp256k1_P)
              pk  == priv2pubG(sk1)
              R1  == pk.x
              S1  == SignS(message, privKey, R1, sk1)
          IN  /\ sk' = sk1
              /\ R' = R1
              /\ S' = S1
              /\ pc' = IF GFeq(R1, GF(0, secp256k1_P)) \/ GFeq(S1, GF(0, secp256k1_N))
                       THEN "sign" ELSE "selfcheck"
    /\ UNCHANGED <<origin, message, privKey, pubKey, verify>>
    /\ UNCHANGED <<derVars, verVars, fieldVars, curveVars, randVars>>

\* lines 417-423: the self-check
SelfCheck ==
    /\ pc = "selfcheck"
    /\ verify' = GFeq(SelfCheckPoint(message, R, S, pubKey).x, R)
    /\ pc' = "checked"
    /\ UNCHANGED <<origin, message, privKey, pubKey, sk, R, S>>
    /\ UNCHANGED <<derVars, verVars, fieldVars, curveVars, randVars>>

\* line 424: } while (!verify)
SignLoopTest ==
    /\ pc = "checked"
    /\ pc' = IF verify THEN "render" ELSE "sign"
    /\ UNCHANGED <<origin, signVars>>
    /\ UNCHANGED <<derVars, verVars, fieldVars, curveVars, randVars>>

\* lines 431 and 437: gmp_sprintf(buf, "%Z064x", ...) of R and of S
RenderRS ==
    /\ pc = "render"
    /\ hexR' = ToHex64(R.num)
    /\ hexS' = ToHex64(S.num)
    /\ pc' = "encode"
    /\ UNCHANGED <<origin, signVars, storedRS, storedDER, sigB64>>
    /\ UNCHANGED <<verVars, fieldVars, curveVars, randVars>>

\* lines 432-462: the sign padding, the two sprintf into buf, base64, output
EncodeDER ==
    /\ pc = "encode"
    /\ LET f == DerFormat(hexR, hexS)
       IN  /\ storedRS' = f.storedRS
           /\ storedDER' = f.storedDER
           /\ \E o \in DerAfterSprintf(f) :
                 /\ pc' = IF o.ended THEN "ended" ELSE "signed"
                 /\ sigB64' = base64_encode(HexToBytes(o.der))
    /\ UNCHANGED <<origin, signVars, hexR, hexS>>
    /\ UNCHANGED <<verVars, fieldVars, curveVars, randVars>>

\* the signature printed is handed to a verify run of the same file, with
\* either address of the signer's public key
RunVerify ==
    /\ pc = "signed"
    /\ origin = "sign"
    /\ argPubKey' \in {AddrUncompressed(pubKey), AddrCompressed(pubKey)}
    /\ argSig' = sigB64
    /\ pc' = "verify"
    /\ UNCHANGED <<origin, signVars, derVars, vR, vS, vi, found, Q>>
    /\ UNCHANGED <<fieldVars, curveVars, randVars>>

\* lines 472-494: the signature decoded, R and S parsed
VerifyParse ==
    /\ pc = "verify"
    /\ LET p == ParseSig(BytesToHex(base64_decode(argSig)))
       IN  /\ vR' = p.R
           /\ vS' = p.S
           /\ pc' = IF p.thrown THEN "ended" ELSE "recover"
    /\ vi' = 0
    /\ found' = FALSE
    /\ UNCHANGED <<origin, signVars, derVars, argPubKey, argSig, Q>>
    /\ UNCHANGED <<fieldVars, curveVars, randVars>>

\* lines 495-525: one pass of the recovery loop
VerifyCandidate ==
    /\ pc = "recover"
    /\ LET Q1 == RecoverQ(vi, vR, vS, message)
           hit == AddrUncompressed(Q1) = argPubKey \/ AddrCompressed(Q1) = argPubKey
       IN  /\ Q' = Q1
           /\ found' = hit
           /\ vi' = IF hit THEN vi ELSE vi + 1
           /\ pc' = IF hit \/ vi + 1 >= 4 THEN "report" ELSE "recover"
    /\ UNCHANGED <<origin, signVars, derVars, argPubKey, argSig, vR, vS>>
    /\ UNCHANGED <<fieldVars, curveVars, randVars>>

\* lines 526-535: the verdict and the exit code
VerifyReport ==
    /\ pc = "report"
    /\ pc' = IF found THEN "passed" ELSE "failed"
    /\ UNCHANGED <<origin, signVars, derVars, verVars>>
    /\ UNCHANGED <<fieldVars, curveVars, randVars>>

Next ==
    \/ SignAttempt \/ SelfCheck \/ SignLoopTest \/ RenderRS \/ EncodeDER
    \/ RunVerify \/ VerifyParse \/ VerifyCandidate \/ VerifyReport

Spec == Init /\ [][Next]_vars

(***************************************************************************)
(* The DER encoding alone, on renderings of full-width integers            *)
(***************************************************************************)
\* gmp_sprintf("%Z064x") of a 256-bit integer: 64 digits, the first any digit
HexRenderings ==
    {<<t>> \o [i \in 1..(HexWidth - 1) |-> f] : <<t, f>> \in (0..15) \X (0..MaxFill)}

InitDER ==
    /\ pc = "encode"
    /\ origin = "der"
    /\ SignUnset
    /\ hexR \in HexRenderings
    /\ hexS \in HexRenderings
    /\ storedRS = 0
    /\ storedDER = 0
    /\ sigB64 = <<>>
    /\ VerUnset
    /\ FieldOff /\ CurveOff /\ RandOff

NextDER == EncodeDER

SpecDER == InitDER /\ [][NextDER]_vars

(***************************************************************************)
(* Claims on signing and verifying                                         *)
(***************************************************************************)
\* the signature a sign run printed, as a verify run reads it
Emitted == ParseSig(BytesToHex(base64_decode(sigB64)))

C2_SelfCheckPassesFirstTime ==
    (pc = "checked" /\ R.num % secp256k1_N # 0 /\ S.num # 0) => verify

\* C3: both components of a signature that is output lie in 1..N-1.
C3_ComponentsAreGroupScalars ==
    pc = "signed" =>
        /\ Emitted.R.num \in 1..(secp256k1_N - 1)
        /\ Emitted.S.num \in 1..(secp256k1_N - 1)

\* C9: a signature whose r or s is 0 modulo N is rejected, whatever the
\* digest and the claimed identity.
C9_ZeroComponentRejected ==
    (pc \in {"passed", "failed"} /\ (vR.num % secp256k1_N = 0 \/ vS.num % secp256k1_N = 0))
        => pc = "failed"

\* C10: each of the two texts sprintf stores into buf, counted with its
\* terminating NUL, takes at most the 143 bytes of buf.
C10_DerFitsBuffer ==
    pc \in {"signed", "ended"} => (storedRS <= BufSize /\ storedDER <= BufSize)

====
